---- MODULE Spec2Model ----
(***************************************************************************)
(* The API gateway of skillbase: the catch-all router of                   *)
(* ApiGatewayController, the forwarder ProxyService.proxyRequest, the      *)
(* service health checker ProxyService.checkServiceHealth and the health   *)
(* aggregator HealthService.getHealthStatus.                               *)
(*                                                                         *)
(* Strings the code takes apart (request URLs, paths, query strings) are   *)
(* sequences of one-character strings; strings it only passes around or    *)
(* compares as a whole are TLA+ strings.                                   *)
(***************************************************************************)
EXTENDS Integers, Sequences, FiniteSets, TLC

VARIABLES
    serviceRoutes,  \* ProxyService.serviceRoutes: ServiceName -> base URL
    req,            \* the inbound request being handled, or NoReq
    gwPc,           \* where the handling of req stands
    fwd,            \* the (service, path) handed to forwardRequest, or NoFwd
    outbound,       \* the outbound calls issued for req, in order
    answer,         \* what the outbound call of req settled with, or NoAnswer
    resp,           \* the HTTP response sent to the caller, or NoResp
    now,            \* the clock read by new Date() and Date.now()
    serviceUptimes, \* HealthService.serviceUptimes: service -> {startTime, lastHealthy}
    hPc,            \* where the getHealthStatus() call of GET /internal/health stands
    svcPc,          \* per service: the position of its checkService call
    svcResult,      \* per service: the ServiceHealth its checkService call returned
    infraPc,        \* per infrastructure dependency: the position of its probe
    infraResult,    \* per infrastructure dependency: the InfrastructureHealth returned
    doc,            \* the HealthStatus document getHealthStatus() returned, or NoDoc
    healthResp,     \* the HTTP status GET /internal/health was answered with, or 0
    observed,       \* the service whose probes are logged, or "none"
    probeLog,       \* what the probes of the observed service settled with
    steady,         \* the backends and dependencies that are up: their probes succeed
    overlap,        \* the checkService call of an overlapping cycle that is followed
    repeat,         \* a request that is followed, and how often it was forwarded before
    routesCopy,     \* the object getServiceRoutes() handed out, or NoCopy
    api,            \* a call of ProxyService made with an arbitrary service name
    calls,          \* per check: the probes its running call has issued, in order
    serviceMap,     \* the map checkAllServices returned to getHealthStatus
    rawHeaders,     \* the headers of req as the client sent them, or NoHeaders
    firstSeen       \* an answer that is followed, and the first response it led to

gwVars == <<req, gwPc, fwd, outbound, answer, resp, repeat, rawHeaders, firstSeen>>
apiVars == <<routesCopy, api>>
envVars == <<steady, overlap>>
healthVars == <<now, serviceUptimes, hPc, svcPc, svcResult, infraPc, infraResult,
                doc, healthResp, observed, probeLog, steady, overlap, calls, serviceMap>>
vars == <<serviceRoutes, req, gwPc, fwd, outbound, answer, resp, now, serviceUptimes,
          hPc, svcPc, svcResult, infraPc, infraResult, doc, healthResp, observed,
          probeLog, steady, overlap, repeat, routesCopy, api, calls, serviceMap,
          rawHeaders, firstSeen>>

(***************************************************************************)
(* Bounds of the model.                                                    *)
(***************************************************************************)
\* Longest remainder appended to a path head when inbound paths are drawn.
MaxRemLen == 2

\* The last reading of the clock: it advances from 0 up to MaxTime.
MaxTime == 1

\* The earlier forwardings of a followed request are counted up to MaxRepeats.
MaxRepeats == 1

(***************************************************************************)
(* The closed set of services.                                             *)
(***************************************************************************)
ServiceIds == {"identity", "course", "media", "progress", "reviews", "indexer"}

\* The alternation of the two routing patterns, in its order.
ServiceAlternation == <<"identity", "course", "media", "progress", "reviews", "indexer">>

\* The literal list the 404 body carries.
AvailableServices == <<"identity", "course", "media", "progress", "reviews", "indexer">>

\* The characters of a service name.
ServiceChars(s) ==
    CASE s = "identity" -> <<"i","d","e","n","t","i","t","y">>
      [] s = "course"   -> <<"c","o","u","r","s","e">>
      [] s = "media"    -> <<"m","e","d","i","a">>
      [] s = "progress" -> <<"p","r","o","g","r","e","s","s">>
      [] s = "reviews"  -> <<"r","e","v","i","e","w","s">>
      [] s = "indexer"  -> <<"i","n","d","e","x","e","r">>

SERVICE_PORTS ==
    [s \in ServiceIds |->
        CASE s = "identity" -> 3001
          [] s = "course"   -> 3002
          [] s = "media"    -> 3003
          [] s = "progress" -> 3004
          [] s = "reviews"  -> 3005
          [] s = "indexer"  -> 3006]

\* The docker hostname of a service, as the constructor spells it.
DockerHost(s) ==
    CASE s = "identity" -> "identity-service"
      [] s = "course"   -> "course-service"
      [] s = "media"    -> "media-service"
      [] s = "progress" -> "progress-service"
      [] s = "reviews"  -> "reviews-service"
      [] s = "indexer"  -> "indexer-service"

\* The base URL table the ProxyService constructor builds (ports at their
\* defaults): `http://localhost:${port}` or `http://${service}-service:${port}`.
BuildServiceRoutes(useLocalhost) ==
    [s \in ServiceIds |->
        [scheme |-> "http",
         host   |-> IF useLocalhost THEN "localhost" ELSE DockerHost(s),
         port   |-> SERVICE_PORTS[s]]]

(***************************************************************************)
(* String helpers.                                                         *)
(***************************************************************************)
Digits == {"0","1","2","3","4","5","6","7","8","9"}

\* s.startsWith(p)
StartsWith(s, p) ==
    /\ Len(p) <= Len(s)
    /\ SubSeq(s, 1, Len(p)) = p

\* s.substring(n): s without its first n characters
Drop(s, n) == SubSeq(s, n + 1, Len(s))

\* s.indexOf(c), 1-based; 0 when c is not in s
IndexOf(s, c) ==
    IF \E i \in 1..Len(s) : s[i] = c
    THEN CHOOSE i \in 1..Len(s) : s[i] = c /\ \A j \in 1..(i - 1) : s[j] # c
    ELSE 0

\* The length of the longest run of digits of s that starts at position i.
RECURSIVE DigitRun(_, _)
DigitRun(s, i) ==
    IF i <= Len(s) /\ s[i] \in Digits THEN 1 + DigitRun(s, i + 1) ELSE 0

\* All sequences over chars of length at most n.
RECURSIVE SeqsUpTo(_, _)
SeqsUpTo(chars, n) ==
    IF n = 0 THEN {<<>>}
    ELSE LET shorter == SeqsUpTo(chars, n - 1)
         IN  shorter \cup {Append(s, c) : s \in shorter, c \in chars}

(***************************************************************************)
(* The inbound request: Express's req.url, req.path, req.query.            *)
(***************************************************************************)
\* req.path: the URL up to its first "?".
PathOf(url) ==
    LET q == IndexOf(url, "?")
    IN  IF q = 0 THEN url ELSE SubSeq(url, 1, q - 1)

\* s split at every sep (String.prototype.split).
RECURSIVE Split(_, _)
Split(s, sep) ==
    LET i == IndexOf(s, sep)
    IN  IF i = 0 THEN <<s>>
        ELSE <<SubSeq(s, 1, i - 1)>> \o Split(Drop(s, i), sep)

\* req.query: the parameters of the URL's query string, as (key, value) pairs.
QueryOf(url) ==
    LET q == IndexOf(url, "?")
        parts == IF q = 0 THEN <<>> ELSE Split(Drop(url, q), "&")
        Pair(p) == LET e == IndexOf(p, "=")
                   IN  IF e = 0 THEN <<p, <<>>>>
                       ELSE <<SubSeq(p, 1, e - 1), Drop(p, e)>>
    IN  {Pair(parts[k]) : k \in {j \in 1..Len(parts) : parts[j] # <<>>}}

(***************************************************************************)
(* The router: the two patterns of the catch-all handler.                  *)
(***************************************************************************)
NoMatch == [matched |-> FALSE, service |-> "none", rest |-> <<>>]

\* The alternation (identity|course|...)(.*)$ applied to s: the first
\* alternative that is a prefix of s, the rest of s being the remainder.
MatchService(s) ==
    LET hits == {i \in 1..Len(ServiceAlternation) :
                    StartsWith(s, ServiceChars(ServiceAlternation[i]))}
    IN  IF hits = {} THEN NoMatch
        ELSE LET i == CHOOSE k \in hits : \A j \in hits : k <= j
                 name == ServiceAlternation[i]
             IN  [matched |-> TRUE, service |-> name,
                  rest |-> Drop(s, Len(ServiceChars(name)))]

\* Mutant of versionedMatch: the version digits optional (\d* for \d+).
versionedMatchNoDigits(path) ==
    IF StartsWith(path, <<"/", "v">>)
    THEN LET n == DigitRun(path, 3)
         IN  IF Len(path) >= 3 + n /\ path[3 + n] = "/"
             THEN MatchService(Drop(path, 3 + n))
             ELSE NoMatch
    ELSE NoMatch

\* Mutant of versionedMatch: only version 1 is accepted.
versionedMatchV1Only(path) ==
    IF StartsWith(path, <<"/", "v", "1", "/">>)
    THEN MatchService(Drop(path, 4))
    ELSE NoMatch

\* path.match(/^\/v(\d+)\/(identity|course|media|progress|reviews|indexer)(.*)$/)
versionedMatch(path) ==
    IF StartsWith(path, <<"/", "v">>)
    THEN LET n == DigitRun(path, 3)
         IN  IF n >= 1 /\ Len(path) >= 3 + n /\ path[3 + n] = "/"
             THEN MatchService(Drop(path, 3 + n))
             ELSE NoMatch
    ELSE NoMatch

\* path.match(/^\/(identity|course|media|progress|reviews|indexer)(.*)$/)
legacyMatch(path) ==
    IF StartsWith(path, <<"/">>) THEN MatchService(Drop(path, 1)) ELSE NoMatch

\* req.url.includes('?') ? req.url.substring(req.url.indexOf('?')) : ''
queryString(url) ==
    LET q == IndexOf(url, "?")
    IN  IF q = 0 THEN <<>> ELSE Drop(url, q - 1)

\* remainingPath ? `${remainingPath}${queryString}` : queryString || '/'
finalPath(remainingPath, qs) ==
    IF remainingPath # <<>> THEN remainingPath \o qs
    ELSE IF qs # <<>> THEN qs ELSE <<"/">>

(***************************************************************************)
(* Inbound requests drawn by the model.                                    *)
(***************************************************************************)
Methods == {"GET", "POST", "PUT", "PATCH", "DELETE"}

RootPath == <<"/">>
InternalHealthPath ==
    <<"/","i","n","t","e","r","n","a","l","/","h","e","a","l","t","h">>

Prefixes == {<<"/">>, <<"/","v","1","/">>, <<"/","v","4","2","/">>, <<"/","v","0","/">>,
             <<"/","v","/">>}
Heads == {ServiceChars(s) : s \in ServiceIds}
            \cup {<<"f","o","o">>, <<>>, <<"a","u","t","h">>, <<"c","o","u","r","s","e","s">>}
RemChars == {"/", "x"}
Remainders == SeqsUpTo(RemChars, MaxRemLen)
Paths == {pre \o h \o r : pre \in Prefixes, h \in Heads, r \in Remainders}
            \cup {InternalHealthPath}
QueryStrings == {<<>>, <<"?">>, <<"?","a","=","1">>}
Urls == {p \o q : p \in Paths, q \in QueryStrings}
NoBody == [type |-> "none", id |-> "", message |-> "none"]
InBodies == {NoBody, [type |-> "object", id |-> "in", message |-> "none"]}
Requests == [method : Methods, url : Urls, body : InBodies]

NoReq == [method |-> "none", url |-> <<>>, body |-> NoBody]
NoFwd == [service |-> "none", path |-> <<>>]
NoRepeat == [request |-> NoReq, count |-> 0]
NoCopy == [alias |-> FALSE, table |-> <<>>]
NoApi == [op |-> "none", service |-> "none", pc |-> "none", calls |-> <<>>,
          status |-> 0, value |-> FALSE]

(***************************************************************************)
(* What a backend may answer to an outbound call.                          *)
(***************************************************************************)
ObjPlain == [type |-> "object", id |-> "B1", message |-> "none"]
ObjWithMessage == [type |-> "object", id |-> "B2", message |-> "course not found"]
StrBody == [type |-> "string", id |-> "oops", message |-> "none"]
EmptyBody == [type |-> "string", id |-> "", message |-> "none"]
DownBodies == {ObjPlain, ObjWithMessage, StrBody, EmptyBody}
DownStatuses == {200, 201, 404, 500}
NetworkCauses == {"connect ECONNREFUSED", "timeout of 30000ms exceeded"}

\* A response header value as axios hands it over: a string, or (set-cookie)
\* a list of strings.
Str(v) == [kind |-> "string", values |-> <<v>>]
List(vs) == [kind |-> "array", values |-> vs]

NoHeaders == [k \in {} |-> ""]

\* The header sets a backend answers a successful exchange with.
PlainHeaders ==
    [k \in {"x-request-id", "Content-Encoding", "connection"} |->
        CASE k = "x-request-id"     -> Str("r-1")
          [] k = "Content-Encoding" -> Str("gzip")
          [] k = "connection"       -> Str("keep-alive")]
CookieHeaders ==
    [k \in {"x-request-id", "set-cookie", "transfer-encoding", "etag"} |->
        CASE k = "x-request-id"      -> Str("r-2")
          [] k = "set-cookie"        -> List(<<"a=1", "b=2">>)
          [] k = "transfer-encoding" -> Str("chunked")
          [] k = "etag"              -> Str("W/1")]
JsonHeaders ==
    [k \in {"content-type", "x-request-id"} |->
        CASE k = "content-type" -> Str("application/json; charset=utf-8")
          [] k = "x-request-id" -> Str("r-3")]
\* The headers of the text body "oops": four bytes of text/plain.
TextHeaders ==
    [k \in {"content-type", "content-length"} |->
        CASE k = "content-type"   -> Str("text/plain")
          [] k = "content-length" -> Str("4")]

DownHeaderSets == {PlainHeaders, CookieHeaders, JsonHeaders}

\* Every status with every body; the header sets with one body each (the
\* headers of an answer that is not 2xx are not read).
Answers ==
    [kind : {"response"}, status : DownStatuses, data : DownBodies, cause : {"none"},
     headers : {NoHeaders}]
        \cup [kind : {"response"}, status : {s \in DownStatuses : s >= 200 /\ s < 300},
              data : {ObjPlain}, cause : {"none"}, headers : DownHeaderSets]
        \cup [kind : {"response"}, status : {s \in DownStatuses : s >= 200 /\ s < 300},
              data : {StrBody}, cause : {"none"}, headers : {TextHeaders}]
        \cup [kind : {"network"}, status : {0}, data : {NoBody}, cause : NetworkCauses,
              headers : {NoHeaders}]

NoAnswer == [kind |-> "none", status |-> 0, data |-> NoBody, cause |-> "none",
             headers |-> NoHeaders]
NoResp == [status |-> 0, body |-> NoBody, headers |-> NoHeaders]
NoFirst == [answer |-> NoAnswer, resp |-> NoResp]

(***************************************************************************)
(* ProxyService.proxyRequest                                               *)
(***************************************************************************)
\* The request config handed to httpService.request: the URL is the base URL
\* followed by the path; params only for a non-empty query; data only for a
\* truthy body with POST, PUT or PATCH.
Lower(method) ==
    CASE method = "GET" -> "get"
      [] method = "POST" -> "post"
      [] method = "PUT" -> "put"
      [] method = "PATCH" -> "patch"
      [] method = "DELETE" -> "delete"

\* key.toLowerCase(), for the header names the model draws.
LowerName(k) ==
    CASE k = "Content-Encoding" -> "content-encoding"
      [] k = "Content-Type"     -> "content-type"
      [] k = "CONTENT-TYPE"     -> "content-type"
      [] k = "Host"             -> "host"
      [] k = "Accept"           -> "accept"
      [] k = "X-Request-Id"     -> "x-request-id"
      [] k = "Authorization"    -> "authorization"
      [] OTHER -> k

\* The headers clients send: none that names a content type, and a content
\* type spelled in three ways.
RawHeaderSets ==
    {[k \in {"Host", "Accept"} |->
        CASE k = "Host" -> "gateway:3000" [] k = "Accept" -> "*/*"],
     [k \in {"host", "Content-Type", "X-Request-Id"} |->
        CASE k = "host" -> "gateway:3000" [] k = "Content-Type" -> "application/json"
          [] k = "X-Request-Id" -> "r-1"],
     [k \in {"host", "content-type", "Authorization"} |->
        CASE k = "host" -> "gateway:3000" [] k = "content-type" -> "text/plain"
          [] k = "Authorization" -> "Bearer t"],
     [k \in {"host", "CONTENT-TYPE"} |->
        CASE k = "host" -> "gateway:3000"
          [] k = "CONTENT-TYPE" -> "application/x-www-form-urlencoded"]}

\* The headers of a client that sends none but Host.
BareHeaders == [k \in {"host"} |-> "gateway:3000"]

\* req.headers: the headers received, their names lower-cased.
nodeHeaders(raw) ==
    [k \in {LowerName(x) : x \in DOMAIN raw} |->
        raw[CHOOSE x \in DOMAIN raw : LowerName(x) = k]]

\* { ...headers, 'Content-Type': 'application/json' }: the keys of headers
\* as they are spelled, and the key Content-Type.
configHeaders(headers) ==
    [k \in DOMAIN headers \cup {"Content-Type"} |->
        IF k = "Content-Type" THEN "application/json" ELSE headers[k]]

\* Mutant of RequestConfig: the body is attached whatever the method.
RequestConfigAlwaysBody(routes, serviceName, path, method, body, headers, query) ==
    [service |-> serviceName,
     method  |-> Lower(method),
     url     |-> [base |-> routes[serviceName], path |-> path],
     headers |-> configHeaders(headers),
     hasParams |-> query # {},
     params  |-> query,
     data    |-> body]

RequestConfig(routes, serviceName, path, method, body, headers, query) ==
    [service |-> serviceName,
     method  |-> Lower(method),
     url     |-> [base |-> routes[serviceName], path |-> path],
     headers |-> configHeaders(headers),
     hasParams |-> query # {},
     params  |-> query,
     data    |-> IF body # NoBody /\ Lower(method) \in {"post", "put", "patch"}
                 THEN body ELSE NoBody]

\* The parameters of a query string, in order and with repetitions, as the
\* downstream service reads them from the URL it is asked for.
QueryList(url) ==
    LET q == IndexOf(url, "?")
        parts == IF q = 0 THEN <<>> ELSE Split(Drop(url, q), "&")
        Pair(p) == LET e == IndexOf(p, "=")
                   IN  IF e = 0 THEN <<p, <<>>>>
                       ELSE <<SubSeq(p, 1, e - 1), Drop(p, e)>>
    IN  [k \in 1..Len(parts) |-> Pair(parts[k])]

\* config.params serialised: key=value, joined by "&".
RECURSIVE Serialize(_)
Serialize(params) ==
    IF params = {} THEN <<>>
    ELSE LET p == CHOOSE x \in params : TRUE
             rest == Serialize(params \ {p})
         IN  p[1] \o <<"=">> \o p[2] \o (IF rest = <<>> THEN <<>> ELSE <<"&">> \o rest)

\* The path and query the HTTP client requests for a config: config.url, and
\* config.params appended to it, after "?" or, when the URL has one, after "&".
buildURL(config) ==
    IF config.hasParams
    THEN config.url.path
            \o (IF IndexOf(config.url.path, "?") = 0 THEN <<"?">> ELSE <<"&">>)
            \o Serialize(config.params)
    ELSE config.url.path

\* Mutant of request: a second attempt is made for the same config.
requestTwice(config) == <<config, config>>

\* firstValueFrom(this.httpService.request(config)): the outbound calls made
\* for one config. No interceptor, retry operator or cache is installed: one.
request(config) == <<config>>

\* axios resolves on a 2xx status and rejects otherwise; a rejection carries
\* error.response when the backend answered.
AxiosResolves(a) == a.kind = "response" /\ a.status >= 200 /\ a.status < 300

\* error.message of an axios rejection that carries a response.
AxiosStatusMessage == "Request failed with status code"

\* The conversion of response.headers to a plain object: a string value as it
\* is, a non-empty list by its first value, anything else left out.
plainHeaders(headers) ==
    [k \in {x \in DOMAIN headers :
                \/ headers[x].kind = "string"
                \/ headers[x].kind = "array" /\ Len(headers[x].values) > 0}
        |-> headers[k].values[1]]

\* Mutant of ProxyOutcome: a network failure is rethrown as it is, not as a
\* Bad Gateway HttpException.
ProxyOutcomeRethrows(serviceName, a) ==
    IF AxiosResolves(a)
    THEN [thrown |-> FALSE, status |-> a.status, data |-> a.data, message |-> <<>>,
          headers |-> plainHeaders(a.headers)]
    ELSE IF a.kind = "response"
    THEN [thrown |-> TRUE, status |-> a.status,
          data |-> IF a.data.id # "" \/ a.data.type = "object" THEN a.data
                   ELSE [type |-> "string", id |-> AxiosStatusMessage, message |-> "none"],
          message |-> <<>>, headers |-> NoHeaders]
    ELSE [thrown |-> TRUE, status |-> 0, data |-> NoBody, message |-> <<a.cause>>,
          headers |-> NoHeaders]

\* What proxyRequest does with the settled outbound call: the ProxyResponse
\* it returns, or the HttpException (response, status) it throws.
ProxyOutcome(serviceName, a) ==
    IF AxiosResolves(a)
    THEN [thrown |-> FALSE, status |-> a.status, data |-> a.data, message |-> <<>>,
          headers |-> plainHeaders(a.headers)]
    ELSE IF a.kind = "response"
    THEN [thrown |-> TRUE, status |-> a.status,
          data |-> IF a.data.id # "" \/ a.data.type = "object" THEN a.data
                   ELSE [type |-> "string", id |-> AxiosStatusMessage, message |-> "none"],
          message |-> <<>>, headers |-> NoHeaders]
    ELSE [thrown |-> TRUE, status |-> 502, data |-> NoBody,
          message |-> <<"Failed to connect to ", serviceName, " service: ", a.cause>>,
          headers |-> NoHeaders]

\* HttpException.message: the response when it is a string, its message
\* field when it is an object that has one, the class name otherwise.
ExceptionMessage(o) ==
    IF o.message # <<>> THEN o.message
    ELSE IF o.data.type = "string" THEN <<o.data.id>>
    ELSE IF o.data.message # "none" THEN <<o.data.message>>
    ELSE <<"Http Exception">>

(***************************************************************************)
(* ApiGatewayController                                                    *)
(***************************************************************************)
\* const headersToExclude = ['content-encoding', 'transfer-encoding', 'connection']
headersToExclude == {"content-encoding", "transfer-encoding", "connection"}

\* Mutant of relayHeaders: the exclusion list is compared with the key as it is.
relayHeadersCaseSensitive(headers) ==
    [k \in {x \in DOMAIN headers : x \notin headersToExclude} |-> headers[k]]

\* The res.setHeader loop: every header of the result whose lower-cased name
\* is not excluded.
relayHeaders(headers) ==
    [k \in {x \in DOMAIN headers : LowerName(x) \notin headersToExclude} |-> headers[k]]

\* Express's res.json(data), as far as it touches headers the handler set:
\* Content-Type is the one already set (application/json when none is), with
\* charset=utf-8; Content-Length is the byte length of the JSON text. (The
\* headers Express adds of its own, ETag and X-Powered-By, are left out.)
setCharset(type) ==
    CASE type = "text/plain"       -> "text/plain; charset=utf-8"
      [] type = "application/json" -> "application/json; charset=utf-8"
      [] OTHER                     -> type

\* String(Buffer.byteLength(JSON.stringify(data))): the text "oops" is sent as
\* "oops" in double quotes.
jsonByteLength(data) ==
    CASE data = StrBody   -> "6"
      [] data = EmptyBody -> "2"
      [] OTHER            -> "byteLength(JSON.stringify(data))"

resJson(headers, data) ==
    LET type == IF "content-type" \in DOMAIN headers
                THEN headers["content-type"] ELSE "application/json"
    IN  [k \in DOMAIN headers \cup {"content-type", "content-length"} |->
            CASE k = "content-type"   -> setCharset(type)
              [] k = "content-length" -> jsonByteLength(data)
              [] OTHER                -> headers[k]]

\* new Date().toISOString() at time t.
toISOString(t) == <<"1970-01-01T00:00:00.00", t, "Z">>

\* Mutant of ForwardResponse: a relayed result is always sent with 200.
ForwardResponseAlwaysOk(url, o) ==
    IF ~o.thrown
    THEN [status |-> 200, body |-> o.data,
          headers |-> resJson(relayHeaders(o.headers), o.data)]
    ELSE LET status == IF o.status # 0 THEN o.status ELSE 500
             body == [type |-> "gatewayError", statusCode |-> status,
                      message |-> ExceptionMessage(o),
                      timestamp |-> toISOString(now), path |-> url]
         IN  [status |-> status, body |-> body, headers |-> resJson(NoHeaders, body)]

\* Mutant of ForwardResponse: the forwarder counts the calls it served for
\* the followed request and sends the count along.
ForwardResponseCounting(url, o) ==
    LET status == IF ~o.thrown THEN o.status ELSE IF o.status # 0 THEN o.status ELSE 500
        body == IF ~o.thrown THEN o.data
                ELSE [type |-> "gatewayError", statusCode |-> status,
                      message |-> ExceptionMessage(o),
                      timestamp |-> toISOString(now), path |-> url]
        sent == resJson(IF ~o.thrown THEN relayHeaders(o.headers) ELSE NoHeaders, body)
    IN  [status |-> status, body |-> body,
         headers |-> [k \in DOMAIN sent \cup {"x-served"} |->
                         IF k = "x-served" THEN Str(repeat.count) ELSE sent[k]]]

\* forwardRequest after the await: the relayed result, or the catch block's
\* error document.
ForwardResponse(url, o) ==
    IF ~o.thrown
    THEN [status |-> o.status, body |-> o.data,
          headers |-> resJson(relayHeaders(o.headers), o.data)]
    ELSE LET status == IF o.status # 0 THEN o.status ELSE 500
             body == [type |-> "gatewayError", statusCode |-> status,
                      message |-> ExceptionMessage(o),
                      timestamp |-> toISOString(now), path |-> url]
         IN  [status |-> status, body |-> body, headers |-> resJson(NoHeaders, body)]

\* The 404 of the catch-all handler.
InvalidPathResponse(url) ==
    LET body == [type |-> "invalidPath", statusCode |-> 404,
                 message |-> <<"Invalid API path. Use /v{version}/{service}/{path} or /{service}/{path}">>,
                 availableServices |-> AvailableServices,
                 timestamp |-> toISOString(now), path |-> url]
    IN  [status |-> 404, body |-> body, headers |-> resJson(NoHeaders, body)]

\* Mutant of Resolve: the reserved paths are not skipped.
ResolveReservedToo(url) ==
    LET path == PathOf(url)
        vm == versionedMatch(path)
        lm == legacyMatch(path)
    IN  IF vm.matched
        THEN [kind |-> "forward", service |-> vm.service,
              path |-> finalPath(vm.rest, queryString(url))]
        ELSE IF lm.matched
        THEN [kind |-> "forward", service |-> lm.service,
              path |-> finalPath(lm.rest, queryString(url))]
        ELSE [kind |-> "notFound", service |-> "none", path |-> <<>>]

\* The catch-all handler's resolution of a request: skipped (reserved path),
\* forwarded to (service, path), or not found.
Resolve(url) ==
    LET path == PathOf(url)
        vm == versionedMatch(path)
        lm == legacyMatch(path)
    IN  IF path = InternalHealthPath \/ path = RootPath
        THEN [kind |-> "skip", service |-> "none", path |-> <<>>]
        ELSE IF vm.matched
        THEN [kind |-> "forward", service |-> vm.service,
              path |-> finalPath(vm.rest, queryString(url))]
        ELSE IF lm.matched
        THEN [kind |-> "forward", service |-> lm.service,
              path |-> finalPath(lm.rest, queryString(url))]
        ELSE [kind |-> "notFound", service |-> "none", path |-> <<>>]

\* GET / : getApiInfo.
ApiInfoBody == [type |-> "apiInfo", id |-> "Skillbase API Gateway", message |-> "none"]

\* No request is being handled.
Idle == gwPc = "idle"

\* The headers the next request can come with: the header sets are told
\* apart only when the headers are what is observed.
HeadersSent == IF observed = "headers" THEN RawHeaderSets ELSE {BareHeaders}

\* @Get() getApiInfo for the request r.
getApiInfoOf(r) ==
    /\ Idle
    /\ r.method = "GET"
    /\ PathOf(r.url) = RootPath
    /\ req' = r
    /\ rawHeaders' \in HeadersSent
    /\ fwd' = NoFwd
    /\ outbound' = <<>>
    /\ answer' = NoAnswer
    /\ resp' = [status |-> 200, body |-> ApiInfoBody,
                headers |-> resJson(NoHeaders, ApiInfoBody)]
    /\ gwPc' = "responded"
    /\ UNCHANGED <<serviceRoutes, repeat, firstSeen, apiVars, healthVars>>

getApiInfo ==
    /\ Idle
    /\ \E r \in Requests : getApiInfoOf(r)

\* @All('*') proxyRequest for the request r, up to the await of the outbound
\* call. GET / and GET /internal/health are taken by the routes declared
\* before it.
proxyRequestOf(r) ==
    LET t == Resolve(r.url)
    IN  /\ Idle
        /\ ~(r.method = "GET" /\ PathOf(r.url) \in {RootPath, InternalHealthPath})
        /\ req' = r
        /\ answer' = NoAnswer
        /\ rawHeaders' \in HeadersSent
        /\ CASE t.kind = "skip" ->
                 /\ fwd' = NoFwd
                 /\ outbound' = <<>>
                 /\ resp' = NoResp
                 /\ gwPc' = "returned"
             [] t.kind = "forward" ->
                 /\ fwd' = [service |-> t.service, path |-> t.path]
                 /\ outbound' = request(RequestConfig(serviceRoutes, t.service, t.path,
                                                      r.method, r.body,
                                                      nodeHeaders(rawHeaders'),
                                                      QueryOf(r.url)))
                 /\ resp' = NoResp
                 /\ gwPc' = "awaiting"
             [] t.kind = "notFound" ->
                 /\ fwd' = NoFwd
                 /\ outbound' = <<>>
                 /\ resp' = InvalidPathResponse(r.url)
                 /\ gwPc' = "responded"
        /\ UNCHANGED <<serviceRoutes, repeat, firstSeen, apiVars, healthVars>>

\* Any request arrives.
proxyRequest ==
    /\ Idle
    /\ \E r \in Requests : proxyRequestOf(r)

\* The followed answer with the response r kept, when r is the first response
\* to the followed request that the followed answer a led to.
firstAfter(a, r) ==
    IF req = repeat.request /\ a = firstSeen.answer /\ firstSeen.resp = NoResp
    THEN [firstSeen EXCEPT !.resp = r]
    ELSE firstSeen

\* Mutant of outboundSettles: a resolved call also stamps the tracker entry
\* of the service it went to.
outboundSettlesStamping ==
    /\ gwPc = "awaiting"
    /\ \E a \in Answers :
        /\ answer' = a
        /\ resp' = ForwardResponse(req.url, ProxyOutcome(fwd.service, a))
        /\ firstSeen' = firstAfter(a, resp')
        /\ serviceUptimes' = IF a.kind = "response" /\ a.status \in 200..299
                             THEN [serviceUptimes EXCEPT ![fwd.service].lastHealthy = now]
                             ELSE serviceUptimes
    /\ gwPc' = "responded"
    /\ UNCHANGED <<serviceRoutes, req, fwd, outbound, repeat, rawHeaders, apiVars, now, hPc, svcPc,
                   svcResult, infraPc, infraResult, doc, healthResp, observed, probeLog,
                   steady, overlap, calls, serviceMap>>

\* The outbound call settles: proxyRequest returns or throws, and
\* forwardRequest answers the caller.
outboundSettles ==
    /\ gwPc = "awaiting"
    /\ \E a \in Answers :
        /\ answer' = a
        /\ resp' = ForwardResponse(req.url, ProxyOutcome(fwd.service, a))
        /\ firstSeen' = firstAfter(a, resp')
    /\ gwPc' = "responded"
    /\ UNCHANGED <<serviceRoutes, req, fwd, outbound, repeat, rawHeaders, apiVars, healthVars>>

\* The handling of req is over (answered, or returned from without an
\* answer); the gateway takes the next request.
requestDone ==
    /\ gwPc \in {"responded", "returned"}
    /\ req' = NoReq
    /\ rawHeaders' = NoHeaders
    /\ UNCHANGED firstSeen
    /\ gwPc' = "idle"
    /\ fwd' = NoFwd
    /\ outbound' = <<>>
    /\ answer' = NoAnswer
    /\ resp' = NoResp
    /\ repeat' = IF req = repeat.request /\ fwd # NoFwd /\ repeat.count < MaxRepeats
                 THEN [repeat EXCEPT !.count = @ + 1]
                 ELSE repeat
    /\ UNCHANGED <<serviceRoutes, apiVars, healthVars>>

(***************************************************************************)
(* ProxyService.checkServiceHealth                                         *)
(***************************************************************************)
ProbeStatuses == {200, 201, 204, 404}
ProbeCauses == {"connect ECONNREFUSED", "timeout of 5000ms exceeded"}
ProbeAnswers ==
    [kind : {"response"}, status : ProbeStatuses, cause : {"none"}]
        \cup [kind : {"network"}, status : {0}, cause : ProbeCauses]
NoProbe == [kind |-> "none", status |-> 0, cause |-> "none"]

\* What the backend of service s may answer to a probe: 200 when it is
\* steady, anything otherwise.
ProbeAnswersOf(s) ==
    IF s \in steady
    THEN {[kind |-> "response", status |-> 200, cause |-> "none"]}
    ELSE ProbeAnswers

\* Mutant of afterHealthProbe: the fallback is tried whenever /health did not
\* answer 200.
afterHealthProbeUnless200(a) ==
    IF AxiosResolves(a) /\ a.status = 200
    THEN [next |-> "return", thrown |-> FALSE, value |-> TRUE]
    ELSE [next |-> "fallback", thrown |-> FALSE, value |-> FALSE]

\* The GET of `${serviceUrl}/health` settles with a: return response.status
\* === 200, or (the await threw) go on to the fallback.
afterHealthProbe(a) ==
    IF AxiosResolves(a)
    THEN [next |-> "return", thrown |-> FALSE, value |-> a.status = 200]
    ELSE [next |-> "fallback", thrown |-> FALSE, value |-> FALSE]

\* The GET of `${serviceUrl}/` settles with a: return response.status ===
\* 200, or (the await threw) return false.
afterRootProbe(a) ==
    IF AxiosResolves(a)
    THEN [next |-> "return", thrown |-> FALSE, value |-> a.status = 200]
    ELSE [next |-> "return", thrown |-> FALSE, value |-> FALSE]

(***************************************************************************)
(* HealthService.checkService                                              *)
(***************************************************************************)
NoResult == [status |-> "none", error |-> "absent", uptime |-> -1]
NoOverlap == [service |-> "none", pc |-> "none", status |-> "none"]

\* Mutant of trackerAfter: lastHealthy is written whatever the verdict.
trackerAfterAnyVerdict(tracker, serviceName, r, t) ==
    IF serviceName \in DOMAIN tracker
    THEN [tracker EXCEPT ![serviceName].lastHealthy = t]
    ELSE tracker

\* Mutant of trackerAfter: a healthy verdict replaces the entry by a fresh
\* one, as the constructor builds it.
trackerAfterFreshEntry(tracker, serviceName, r, t) ==
    IF ~r.thrown /\ r.value /\ serviceName \in DOMAIN tracker
    THEN [tracker EXCEPT ![serviceName] = [startTime |-> t, lastHealthy |-> t]]
    ELSE tracker

\* The tracker after checkServiceHealth returned r for serviceName at time t.
trackerAfter(tracker, serviceName, r, t) ==
    IF ~r.thrown /\ r.value /\ serviceName \in DOMAIN tracker
    THEN [tracker EXCEPT ![serviceName].lastHealthy = t]
    ELSE tracker

\* Mutant of serviceHealthOf: the uptime is the time since the service last
\* answered healthy.
serviceHealthOfSinceHealthy(tracker, serviceName, r, t) ==
    IF r.thrown
    THEN [status |-> "unhealthy", error |-> "error.message", uptime |-> -1]
    ELSE [status |-> IF r.value THEN "healthy" ELSE "unhealthy",
          error  |-> "absent",
          uptime |-> IF serviceName \in DOMAIN tracker
                     THEN t - trackerAfter(tracker, serviceName, r, t)[serviceName].lastHealthy
                     ELSE -1]

\* The ServiceHealth checkService returns once checkServiceHealth returned
\* (or threw) r at time t.
serviceHealthOf(tracker, serviceName, r, t) ==
    IF r.thrown
    THEN [status |-> "unhealthy", error |-> "error.message", uptime |-> -1]
    ELSE [status |-> IF r.value THEN "healthy" ELSE "unhealthy",
          error  |-> "absent",
          uptime |-> IF serviceName \in DOMAIN tracker
                     THEN t - tracker[serviceName].startTime ELSE -1]

(***************************************************************************)
(* HealthService: the six infrastructure probes.                           *)
(*                                                                         *)
(* A probe is a straight run of steps; a scenario says at which step (if   *)
(* any) the first exception is thrown, whether the teardown attempted in   *)
(* the catch block throws too, and whether the dependency's liveness       *)
(* answer is the positive one.                                             *)
(***************************************************************************)
InfraNames == {"postgresql", "mongodb", "redis", "meilisearch", "minio", "rabbitmq"}

ProbeSteps(name) ==
    CASE name = "postgresql"  -> <<"construct", "connect", "query", "end", "details">>
      [] name = "mongodb"     -> <<"construct", "connect", "command", "close">>
      [] name = "redis"       -> <<"construct", "connect", "info", "ping", "quit", "match">>
      [] name = "meilisearch" -> <<"construct", "health", "getVersion">>
      [] name = "minio"       -> <<"construct", "bucketExists">>
      [] name = "rabbitmq"    -> <<"fetch", "json">>

Scenarios(name) ==
    [failAt : 0..Len(ProbeSteps(name)), cleanupThrows : BOOLEAN, positive : BOOLEAN]

\* What a probe ends with: the InfrastructureHealth it returns (or the
\* exception that escapes it); whether a step of its try block threw; where
\* it leaves the client it constructed: "none" (no client was constructed),
\* "closed" (its teardown was called) or "open" (it was not); and whether the
\* teardown called in the catch block threw.
Healthy ==
    [status |-> "healthy", error |-> "absent", escaped |-> FALSE,
     threw |-> FALSE, handle |-> "none", teardownThrew |-> FALSE]
UnhealthyQuiet ==
    [status |-> "unhealthy", error |-> "absent", escaped |-> FALSE,
     threw |-> FALSE, handle |-> "none", teardownThrew |-> FALSE]
Caught ==
    [status |-> "unhealthy", error |-> "error.message", escaped |-> FALSE,
     threw |-> TRUE, handle |-> "none", teardownThrew |-> FALSE]
Escaped ==
    [status |-> "none", error |-> "absent", escaped |-> TRUE,
     threw |-> TRUE, handle |-> "none", teardownThrew |-> FALSE]

\* Mutant of teardownInCatch: the catch block does not call the teardown.
teardownInCatchSkipped(hasClient, throws) ==
    [closeAttempted |-> FALSE, escaped |-> FALSE]

\* Mutant of teardownInCatch: the teardown of the catch block is not wrapped
\* in a try/catch of its own.
teardownInCatchUnguarded(hasClient, throws) ==
    [closeAttempted |-> hasClient, escaped |-> hasClient /\ throws]

\* The catch block's `if (client) { try { await client.end() } catch {} }`:
\* the teardown is attempted when the client was constructed, and what it
\* throws is dropped.
teardownInCatch(hasClient, throws) ==
    [closeAttempted |-> hasClient, escaped |-> FALSE]

\* The position of a step in the run of a probe.
StepIndex(name, step) ==
    CHOOSE i \in 1..Len(ProbeSteps(name)) : ProbeSteps(name)[i] = step

\* Where a probe whose try block calls the teardown step `closing` leaves
\* its client: the client exists once "construct" is over; the teardown is
\* called in the try block when the run gets as far as `closing`, and in the
\* catch block as td says.
handleAfter(name, closing, sc, td) ==
    LET constructed == sc.failAt = 0 \/ sc.failAt > StepIndex(name, "construct")
        closedInTry == sc.failAt = 0 \/ sc.failAt >= StepIndex(name, closing)
    IN  IF ~constructed THEN "none"
        ELSE IF closedInTry \/ td.closeAttempted THEN "closed"
        ELSE "open"

\* checkPostgreSQL: construct, connect, query, end and the details of the
\* returned object, all inside the try.
checkPostgreSQL(sc) ==
    LET td == teardownInCatch(sc.failAt > 1, sc.cleanupThrows)
        result == IF sc.failAt = 0 THEN Healthy
                  ELSE IF td.escaped THEN Escaped
                  ELSE Caught
    IN  [result EXCEPT !.handle = handleAfter("postgresql", "end", sc, td),
                       !.teardownThrew = td.closeAttempted /\ sc.cleanupThrows]

\* checkMongoDB: construct, connect, command, close.
checkMongoDB(sc) ==
    LET td == teardownInCatch(sc.failAt > 1, sc.cleanupThrows)
        result == IF sc.failAt = 0 THEN Healthy
                  ELSE IF td.escaped THEN Escaped
                  ELSE Caught
    IN  [result EXCEPT !.handle = handleAfter("mongodb", "close", sc, td),
                       !.teardownThrew = td.closeAttempted /\ sc.cleanupThrows]

\* checkRedis: construct, connect, info, ping, quit, info.match; the status
\* is pong === 'PONG'.
checkRedis(sc) ==
    LET td == teardownInCatch(sc.failAt > 1, sc.cleanupThrows)
        result == IF sc.failAt = 0 THEN (IF sc.positive THEN Healthy ELSE UnhealthyQuiet)
                  ELSE IF td.escaped THEN Escaped
                  ELSE Caught
    IN  [result EXCEPT !.handle = handleAfter("redis", "quit", sc, td),
                       !.teardownThrew = td.closeAttempted /\ sc.cleanupThrows]

\* checkMeilisearch: no teardown; the status is health.status === 'available'.
checkMeilisearch(sc) ==
    IF sc.failAt # 0 THEN Caught
    ELSE IF sc.positive THEN Healthy ELSE UnhealthyQuiet

\* checkMinIO: no teardown; the status is bucketExists.
checkMinIO(sc) ==
    IF sc.failAt # 0 THEN Caught
    ELSE IF sc.positive THEN Healthy ELSE UnhealthyQuiet

\* checkRabbitMQ: a response that is not ok is reported as `HTTP ${status}`.
checkRabbitMQ(sc) ==
    IF sc.failAt = 1 THEN Caught
    ELSE IF ~sc.positive
    THEN [status |-> "unhealthy", error |-> "HTTP status", escaped |-> FALSE]
    ELSE IF sc.failAt = 2 THEN Caught
    ELSE Healthy

runProbe(name, sc) ==
    CASE name = "postgresql"  -> checkPostgreSQL(sc)
      [] name = "mongodb"     -> checkMongoDB(sc)
      [] name = "redis"       -> checkRedis(sc)
      [] name = "meilisearch" -> checkMeilisearch(sc)
      [] name = "minio"       -> checkMinIO(sc)
      [] name = "rabbitmq"    -> checkRabbitMQ(sc)

\* What each probe can return, over all its scenarios.
ProbeResults == [name \in InfraNames |-> {runProbe(name, sc) : sc \in Scenarios(name)}]

(***************************************************************************)
(* HealthService.getHealthStatus                                           *)
(***************************************************************************)
NoInfra == [status |-> "none", error |-> "absent"]
NoDoc == [status |-> "none", services |-> <<>>, infrastructure |-> <<>>]
NoLog == [health |-> NoProbe, root |-> NoProbe, threw |-> FALSE, handle |-> "none",
          teardownThrew |-> FALSE, order |-> <<>>]

\* Mutant of overallStatus: "degraded" when some checks, but not all, are
\* unhealthy.
overallStatusDegraded(services, infrastructure) ==
    LET statuses == {services[s].status : s \in DOMAIN services}
                        \cup {infrastructure[n].status : n \in DOMAIN infrastructure}
    IN  IF "unhealthy" \notin statuses THEN "healthy"
        ELSE IF "healthy" \in statuses THEN "degraded"
        ELSE "unhealthy"

\* Mutant of overallStatus: only the service statuses are folded.
overallStatusServicesOnly(services, infrastructure) ==
    IF \E s \in DOMAIN services : services[s].status = "unhealthy"
    THEN "unhealthy" ELSE "healthy"

\* allStatuses.some(s => s === 'unhealthy') ? 'unhealthy' : 'healthy'
overallStatus(services, infrastructure) ==
    IF \/ \E s \in DOMAIN services : services[s].status = "unhealthy"
       \/ \E n \in DOMAIN infrastructure : infrastructure[n].status = "unhealthy"
    THEN "unhealthy" ELSE "healthy"

\* Mutant of healthDocument: the services map keeps only the checks that
\* ended healthy.
healthDocumentHealthyOnly(services, infrastructure) ==
    [status |-> overallStatus(services, infrastructure),
     services |-> [s \in {x \in DOMAIN services : services[x].status = "healthy"}
                      |-> services[s]],
     infrastructure |-> infrastructure]

\* The object getHealthStatus returns: the two maps as checkAllServices and
\* checkAllInfrastructure returned them, and the folded status.
healthDocument(services, infrastructure) ==
    [status |-> overallStatus(services, infrastructure),
     services |-> services,
     infrastructure |-> infrastructure]

\* The twelve checks of a cycle.
Checks == ServiceIds \cup InfraNames
NoCalls == [c \in Checks |-> <<>>]
NoMap == <<>>

\* The keys of checkAllServices, lower-cased and without "_service", and the
\* probes of checkAllInfrastructure, in the order of their arrays.
serviceNames == <<"identity", "course", "media", "progress", "reviews", "indexer">>
infraOrder == <<"postgresql", "mongodb", "redis", "meilisearch", "minio", "rabbitmq">>

\* Mutant of promiseAll: the values in the order the promises settled in.
promiseAllAsSettled(names, order, values) ==
    [i \in 1..Len(names) |-> values[order[i]]]

\* await Promise.all(promises): the values of the promises in the order of
\* the array handed in; the order they settled in is not looked at.
promiseAll(names, order, values) ==
    [i \in 1..Len(names) |-> values[names[i]]]

\* The map built from the array of results: key names[i] holds results[i]
\* (the forEach of checkAllServices, the object literal of
\* checkAllInfrastructure).
keyed(names, results) ==
    [k \in {names[i] : i \in 1..Len(names)} |->
        results[CHOOSE i \in 1..Len(names) : names[i] = k]]

\* What the probe of dependency n can return: the healthy results when the
\* dependency is up, anything otherwise.
ProbeResultsOf(n) ==
    IF n \in steady
    THEN {r \in ProbeResults[n] : r.status = "healthy"}
    ELSE ProbeResults[n]

\* The settle order with check c added, when the order is logged.
orderWith(log, c) == IF observed = "order" THEN Append(log.order, c) ELSE log.order

\* GET /internal/health: getHealth calls getHealthStatus, which calls
\* checkAllServices, which starts the six checkService calls; each runs up
\* to the await of its GET /health.
getHealth ==
    /\ hPc = "idle"
    /\ hPc' = "services"
    /\ svcPc' = [s \in ServiceIds |-> "health"]
    /\ calls' = [c \in Checks |-> IF c \in ServiceIds THEN <<"/health">> ELSE <<>>]
    /\ UNCHANGED <<serviceRoutes, gwVars, apiVars, envVars, now, serviceUptimes, svcResult,
                   infraPc, infraResult, doc, healthResp, observed, probeLog, serviceMap>>

\* checkServiceHealth of s returned (or threw) r: the rest of checkService,
\* and, when this was the last of the six, the return of checkAllServices and
\* the start of checkAllInfrastructure with its six probes.
serviceSettles(s, r, log) ==
    LET pcs == [svcPc EXCEPT ![s] = "done"]
        results == [svcResult EXCEPT ![s] = serviceHealthOf(serviceUptimes, s, r, now)]
        order == orderWith(log, s)
    IN  /\ svcPc' = pcs
        /\ svcResult' = results
        /\ serviceUptimes' = trackerAfter(serviceUptimes, s, r, now)
        /\ IF \A x \in ServiceIds : pcs[x] = "done"
           THEN /\ hPc' = "infrastructure"
                /\ serviceMap' = keyed(serviceNames, promiseAll(serviceNames, order, results))
                /\ infraPc' = [n \in InfraNames |-> "probing"]
                /\ calls' = [c \in Checks |-> IF c \in InfraNames THEN <<"probe">> ELSE <<>>]
                /\ probeLog' = [log EXCEPT !.order = <<>>]
           ELSE /\ calls' = [calls EXCEPT ![s] = <<>>]
                /\ probeLog' = [log EXCEPT !.order = order]
                /\ UNCHANGED <<hPc, infraPc, serviceMap>>

\* The GET /health of service s settles.
healthProbeSettles(s) ==
    /\ hPc = "services"
    /\ svcPc[s] = "health"
    /\ \E a \in ProbeAnswersOf(s) :
        LET r == afterHealthProbe(a)
            log == IF s = observed THEN [probeLog EXCEPT !.health = a] ELSE probeLog
        IN  IF r.next = "fallback"
            THEN /\ svcPc' = [svcPc EXCEPT ![s] = "root"]
                 /\ calls' = [calls EXCEPT ![s] = Append(@, "/")]
                 /\ probeLog' = log
                 /\ UNCHANGED <<svcResult, serviceUptimes, hPc, infraPc, serviceMap>>
            ELSE serviceSettles(s, r, log)
    /\ UNCHANGED <<serviceRoutes, gwVars, apiVars, envVars, now, infraResult, doc, healthResp,
                   observed>>

\* The fallback GET / of service s settles.
rootProbeSettles(s) ==
    /\ hPc = "services"
    /\ svcPc[s] = "root"
    /\ \E a \in ProbeAnswersOf(s) :
        serviceSettles(s, afterRootProbe(a),
                       IF s = observed THEN [probeLog EXCEPT !.root = a] ELSE probeLog)
    /\ UNCHANGED <<serviceRoutes, gwVars, apiVars, envVars, now, infraResult, doc, healthResp,
                   observed>>

\* The probe of infrastructure dependency n settles; when it is the last of
\* the six, checkAllInfrastructure returns, getHealthStatus builds the
\* document and getHealth answers 200. A probe that rejects makes
\* Promise.all, getHealthStatus and getHealth reject: the framework answers 500.
infraSettles(n) ==
    /\ hPc = "infrastructure"
    /\ infraPc[n] = "probing"
    /\ \E r \in ProbeResultsOf(n) :
        LET pcs == [infraPc EXCEPT ![n] = "done"]
            results == [infraResult EXCEPT ![n] = [status |-> r.status, error |-> r.error]]
            order == orderWith(probeLog, n)
        IN  /\ infraPc' = pcs
            /\ probeLog' = IF n = observed
                           THEN [probeLog EXCEPT !.threw = r.threw,
                                                 !.handle = r.handle,
                                                 !.teardownThrew = r.teardownThrew]
                           ELSE [probeLog EXCEPT !.order = order]
            /\ IF r.escaped
               THEN /\ hPc' = "rejected"
                    /\ healthResp' = 500
                    /\ UNCHANGED <<infraResult, doc>>
               ELSE /\ infraResult' = results
                    /\ IF \A x \in InfraNames : pcs[x] = "done"
                       THEN /\ hPc' = "done"
                            /\ doc' = healthDocument(
                                        serviceMap,
                                        keyed(infraOrder, promiseAll(infraOrder, order, results)))
                            /\ healthResp' = 200
                       ELSE UNCHANGED <<hPc, doc, healthResp>>
    /\ UNCHANGED <<serviceRoutes, gwVars, apiVars, envVars, now, serviceUptimes, svcPc,
                   svcResult, observed, calls, serviceMap>>

\* The awaited steps of a probe that no timeout of the code covers. The
\* options the code passes bound the connection only (connectionTimeoutMillis,
\* serverSelectionTimeoutMS, connectTimeout); the MeiliSearch and Minio
\* clients are built without any; only the fetch of checkRabbitMQ carries an
\* AbortSignal.timeout.
UntimedSteps(name) ==
    CASE name = "postgresql"  -> {"query", "end"}
      [] name = "mongodb"     -> {"command", "close"}
      [] name = "redis"       -> {"info", "ping", "quit"}
      [] name = "meilisearch" -> {"health", "getVersion"}
      [] name = "minio"       -> {"bucketExists"}
      [] name = "rabbitmq"    -> {}

\* The dependency of probe n accepted the connection and never answers a
\* step that has no timeout: the await of that step never returns.
infraHangs(n) ==
    /\ hPc = "infrastructure"
    /\ infraPc[n] = "probing"
    /\ UntimedSteps(n) \cap {ProbeSteps(n)[i] : i \in 1..Len(ProbeSteps(n))} # {}
    /\ infraPc' = [infraPc EXCEPT ![n] = "hung"]
    /\ UNCHANGED <<serviceRoutes, gwVars, apiVars, envVars, now, serviceUptimes, hPc, svcPc,
                   svcResult, infraResult, doc, healthResp, observed, probeLog, calls,
                   serviceMap>>

\* A probe of service s, or the probe of dependency s, is in flight.
ProbePending(s) ==
    IF s \in ServiceIds
    THEN \/ svcPc[s] \in {"health", "root"}
         \/ overlap.service = s /\ overlap.pc \in {"health", "root"}
    ELSE infraPc[s] = "probing"

\* The clock advances. A steady backend answers within one reading of the
\* clock: no probe of it is in flight when the clock moves.
Tick ==
    /\ now < MaxTime
    /\ \A s \in steady : ~ProbePending(s)
    /\ now' = now + 1
    /\ UNCHANGED <<serviceRoutes, gwVars, apiVars, envVars, serviceUptimes, hPc, svcPc,
                   svcResult, infraPc, infraResult, doc, healthResp, observed, probeLog,
                   calls, serviceMap>>

\* Another GET /internal/health arrives while one is being served: its
\* getHealthStatus starts six checkService calls of its own. Of these the
\* one for s is followed, up to the await of its GET /health.
getHealthOverlapping(s) ==
    /\ hPc \in {"services", "infrastructure"}
    /\ overlap.pc \in {"none", "done"}
    /\ overlap' = [service |-> s, pc |-> "health", status |-> "none"]
    /\ UNCHANGED <<serviceRoutes, gwVars, apiVars, steady, now, serviceUptimes, hPc, svcPc,
                   svcResult, infraPc, infraResult, doc, healthResp, observed, probeLog,
                   calls, serviceMap>>

\* A probe of the followed call settles: the fallback is tried, or
\* checkServiceHealth returns and the rest of checkService runs.
overlappingProbeSettles ==
    /\ overlap.pc \in {"health", "root"}
    /\ \E a \in ProbeAnswersOf(overlap.service) :
        LET r == IF overlap.pc = "health" THEN afterHealthProbe(a) ELSE afterRootProbe(a)
        IN  IF r.next = "fallback"
            THEN /\ overlap' = [overlap EXCEPT !.pc = "root"]
                 /\ UNCHANGED serviceUptimes
            ELSE /\ overlap' = [overlap EXCEPT
                                    !.pc = "done",
                                    !.status = serviceHealthOf(serviceUptimes, overlap.service,
                                                               r, now).status]
                 /\ serviceUptimes' = trackerAfter(serviceUptimes, overlap.service, r, now)
    /\ UNCHANGED <<serviceRoutes, gwVars, apiVars, steady, now, hPc, svcPc, svcResult, infraPc,
                   infraResult, doc, healthResp, observed, probeLog, calls, serviceMap>>

\* GET /internal/health is answered; the next one may arrive.
healthDone ==
    /\ hPc \in {"done", "rejected"}
    /\ hPc' = "idle"
    /\ svcPc' = [s \in ServiceIds |-> "none"]
    /\ svcResult' = [s \in ServiceIds |-> NoResult]
    /\ infraPc' = [n \in InfraNames |-> "none"]
    /\ infraResult' = [n \in InfraNames |-> NoInfra]
    /\ doc' = NoDoc
    /\ healthResp' = 0
    /\ probeLog' = NoLog
    /\ calls' = NoCalls
    /\ serviceMap' = NoMap
    /\ UNCHANGED <<serviceRoutes, gwVars, apiVars, envVars, now, serviceUptimes, observed>>

(***************************************************************************)
(* ProxyService.getServiceRoutes                                           *)
(***************************************************************************)
\* Mutant of spread: the table itself is handed out.
spreadAliased(routes) == [alias |-> TRUE, table |-> routes]

\* { ...this.serviceRoutes }: a new object with the entries of the table.
\* alias says whether the object handed out is the table itself.
spread(routes) == [alias |-> FALSE, table |-> routes]

\* A base URL a caller may write into the object it was handed.
Elsewhere == [scheme |-> "http", host |-> "elsewhere", port |-> 80]

getServiceRoutes ==
    /\ routesCopy' = spread(serviceRoutes)
    /\ UNCHANGED <<serviceRoutes, gwVars, api, healthVars>>

\* The caller of getServiceRoutes assigns to entry s of the object it was
\* handed: that object changes, and the table only if it is the same object.
mutateCopy(s) ==
    /\ routesCopy # NoCopy
    /\ routesCopy.table[s] # Elsewhere
    /\ routesCopy' = [routesCopy EXCEPT !.table[s] = Elsewhere]
    /\ serviceRoutes' = IF routesCopy.alias
                        THEN [serviceRoutes EXCEPT ![s] = Elsewhere]
                        ELSE serviceRoutes
    /\ UNCHANGED <<gwVars, api, healthVars>>

(***************************************************************************)
(* ProxyService called with an arbitrary service name. The controller and  *)
(* the health service only pass the six names; the type ServiceName is     *)
(* erased at run time (`service as any`), so any string can arrive.        *)
(***************************************************************************)
\* Names every object inherits from Object.prototype (some of them).
ObjectPrototypeKeys == {"constructor", "toString", "__proto__"}

\* The names a caller passes: the six, one that names nothing, and two that
\* name inherited properties.
ApiNames == ServiceIds \cup {"billing", "constructor", "toString"}
ApiPaths == {<<"/">>, <<"/", "x">>}

\* const serviceUrl = this.serviceRoutes[serviceName]: the entry of the
\* table, else the property the object literal inherits (a function: it is
\* truthy, and in a template string it prints its source), else undefined.
serviceUrlOf(routes, serviceName) ==
    IF serviceName \in DOMAIN routes
    THEN [kind |-> "string", url |-> routes[serviceName]]
    ELSE IF serviceName \in ObjectPrototypeKeys
    THEN [kind |-> "function", url |-> [scheme |-> "", host |-> "function () { [native code] }",
                                        port |-> 0]]
    ELSE [kind |-> "undefined", url |-> [scheme |-> "", host |-> "", port |-> 0]]

\* !serviceUrl
Falsy(v) == v.kind = "undefined"

\* What an outbound call to base URL v settles with: anything for a base
\* URL that can be parsed; the client's own rejection (no error.response)
\* when the URL is not one.
InvalidUrl == [kind |-> "network", status |-> 0, data |-> NoBody, cause |-> "Invalid URL",
               headers |-> NoHeaders]
AnswersTo(v) == IF v.kind = "string" THEN Answers ELSE {InvalidUrl}
ProbeAnswersTo(v) ==
    IF v.kind = "string" THEN ProbeAnswers
    ELSE {[kind |-> "network", status |-> 0, cause |-> "Invalid URL"]}

\* proxyService.proxyRequest(name, path, 'GET'), up to the throw of the
\* NOT_FOUND exception or the await of the outbound call.
callProxyRequest(name, path) ==
    LET serviceUrl == serviceUrlOf(serviceRoutes, name)
    IN  /\ api = NoApi
        /\ api' = IF Falsy(serviceUrl)
                  THEN [op |-> "proxyRequest", service |-> name, pc |-> "thrown",
                        calls |-> <<>>, status |-> 404, value |-> FALSE]
                  ELSE [op |-> "proxyRequest", service |-> name, pc |-> "awaiting",
                        calls |-> request([base |-> serviceUrl.url, path |-> path]),
                        status |-> 0, value |-> FALSE]
        /\ UNCHANGED <<serviceRoutes, gwVars, routesCopy, healthVars>>

\* The outbound call of that proxyRequest settles: it returns or throws.
apiOutboundSettles ==
    /\ api.op = "proxyRequest"
    /\ api.pc = "awaiting"
    /\ \E a \in AnswersTo(serviceUrlOf(serviceRoutes, api.service)) :
        LET o == ProxyOutcome(api.service, a)
        IN  api' = [api EXCEPT !.pc = IF o.thrown THEN "thrown" ELSE "returned",
                               !.status = o.status]
    /\ UNCHANGED <<serviceRoutes, gwVars, routesCopy, healthVars>>

\* proxyService.checkServiceHealth(name), up to `return false` or the await
\* of the GET of /health.
callCheckServiceHealth(name) ==
    LET serviceUrl == serviceUrlOf(serviceRoutes, name)
    IN  /\ api = NoApi
        /\ api' = IF Falsy(serviceUrl)
                  THEN [op |-> "checkServiceHealth", service |-> name, pc |-> "returned",
                        calls |-> <<>>, status |-> 0, value |-> FALSE]
                  ELSE [op |-> "checkServiceHealth", service |-> name, pc |-> "health",
                        calls |-> <<[base |-> serviceUrl.url, path |-> <<"/","h","e","a","l","t","h">>]>>,
                        status |-> 0, value |-> FALSE]
        /\ UNCHANGED <<serviceRoutes, gwVars, routesCopy, healthVars>>

\* A probe of that checkServiceHealth settles.
apiProbeSettles ==
    /\ api.op = "checkServiceHealth"
    /\ api.pc \in {"health", "root"}
    /\ \E a \in ProbeAnswersTo(serviceUrlOf(serviceRoutes, api.service)) :
        LET r == IF api.pc = "health" THEN afterHealthProbe(a) ELSE afterRootProbe(a)
        IN  api' = IF r.next = "fallback"
                   THEN [api EXCEPT !.pc = "root",
                                    !.calls = Append(@, [base |-> api.calls[1].base,
                                                         path |-> <<"/">>])]
                   ELSE [api EXCEPT !.pc = "returned", !.value = r.value]
    /\ UNCHANGED <<serviceRoutes, gwVars, routesCopy, healthVars>>

\* The caller has the result; the next call may be made.
apiDone ==
    /\ api.pc \in {"thrown", "returned"}
    /\ api' = NoApi
    /\ UNCHANGED <<serviceRoutes, gwVars, routesCopy, healthVars>>

\* The state after the constructors of ProxyService and HealthService.
InitGateway ==
    /\ \E useLocalhost \in BOOLEAN : serviceRoutes = BuildServiceRoutes(useLocalhost)
    /\ req = NoReq
    /\ gwPc = "idle"
    /\ fwd = NoFwd
    /\ outbound = <<>>
    /\ answer = NoAnswer
    /\ resp = NoResp
    /\ rawHeaders = NoHeaders
    /\ now = 0
    /\ serviceUptimes = [s \in ServiceIds |-> [startTime |-> now, lastHealthy |-> now]]
    /\ hPc = "idle"
    /\ svcPc = [s \in ServiceIds |-> "none"]
    /\ svcResult = [s \in ServiceIds |-> NoResult]
    /\ infraPc = [n \in InfraNames |-> "none"]
    /\ infraResult = [n \in InfraNames |-> NoInfra]
    /\ doc = NoDoc
    /\ healthResp = 0
    /\ probeLog = NoLog
    /\ overlap = NoOverlap
    /\ routesCopy = NoCopy
    /\ api = NoApi
    /\ calls = NoCalls
    /\ serviceMap = NoMap

Init ==
    /\ InitGateway
    /\ observed = "none"
    /\ steady = {}
    /\ repeat = NoRepeat
    /\ firstSeen = NoFirst

\* The same, with the probes of one service logged.
InitObserved ==
    /\ InitGateway
    /\ observed \in ServiceIds
    /\ steady = {}
    /\ repeat = NoRepeat
    /\ firstSeen = NoFirst

\* The same with USE_LOCALHOST at its default, nothing logged, and the
\* backends of all services but media up.
InitTracker ==
    /\ InitGateway
    /\ serviceRoutes = BuildServiceRoutes(TRUE)
    /\ observed = "none"
    /\ steady = ServiceIds \ {"media"}
    /\ repeat = NoRepeat
    /\ firstSeen = NoFirst

\* The same with every backend but media up and the probe of one of the
\* dependencies that hold a client logged.
InitProbes ==
    /\ InitGateway
    /\ observed \in {"postgresql", "mongodb", "redis"}
    /\ steady = ServiceIds \ {"media"}
    /\ repeat = NoRepeat
    /\ firstSeen = NoFirst

\* A few requests: two that are forwarded, one that matches no scheme and
\* one to a reserved path.
FewRequests ==
    {[url |-> <<"/","v","1","/">> \o ServiceChars("course") \o <<"/","x">>,
      method |-> "GET", body |-> NoBody],
     [url |-> <<"/">> \o ServiceChars("media") \o <<"/","x">>,
      method |-> "POST", body |-> [type |-> "object", id |-> "in", message |-> "none"]],
     [url |-> <<"/","v","1","/","f","o","o">>, method |-> "DELETE", body |-> NoBody],
     [url |-> RootPath, method |-> "POST", body |-> NoBody]}

\* The same with USE_LOCALHOST at its default, every backend but media and
\* every dependency but redis up, and one of the forwarded requests followed.
InitRepeat ==
    /\ InitGateway
    /\ serviceRoutes = BuildServiceRoutes(TRUE)
    /\ observed = "none"
    /\ steady = (ServiceIds \ {"media"}) \cup (InfraNames \ {"redis"})
    /\ \E r \in FewRequests :
        /\ Resolve(r.url).kind = "forward"
        /\ repeat = [request |-> r, count |-> 0]
    /\ firstSeen = NoFirst

\* The answers that are followed: a success with headers, a relayed error
\* and a network failure.
FollowedAnswers ==
    {a \in Answers :
        \/ a.status = 200 /\ a.headers = CookieHeaders
        \/ a.status = 404 /\ a.data = ObjWithMessage
        \/ a.kind = "network" /\ a.cause = "connect ECONNREFUSED"}

\* The same with every backend and every dependency up, the request that
\* has a body followed, and one answer to it followed as well.
InitStateless ==
    /\ InitGateway
    /\ serviceRoutes = BuildServiceRoutes(TRUE)
    /\ observed = "none"
    /\ steady = ServiceIds \cup InfraNames
    /\ \E r \in FewRequests :
        /\ Resolve(r.url).kind = "forward"
        /\ r.body # NoBody
        /\ repeat = [request |-> r, count |-> 0]
    /\ \E a \in FollowedAnswers : firstSeen = [answer |-> a, resp |-> NoResp]

\* The same with nothing followed and the order in which the checks of a
\* cycle settle logged.
InitMerge ==
    /\ InitGateway
    /\ serviceRoutes = BuildServiceRoutes(TRUE)
    /\ observed = "order"
    /\ steady = (ServiceIds \ {"media"}) \cup (InfraNames \ {"redis"})
    /\ repeat = NoRepeat
    /\ firstSeen = NoFirst

\* The same with the headers of the requests told apart.
InitHeaders ==
    /\ InitGateway
    /\ observed = "headers"
    /\ steady = {}
    /\ repeat = NoRepeat
    /\ firstSeen = NoFirst

\* The same with either value of USE_LOCALHOST, every backend but media and
\* every dependency up.
InitRegistry ==
    /\ InitGateway
    /\ observed = "none"
    /\ steady = (ServiceIds \ {"media"}) \cup InfraNames
    /\ repeat = NoRepeat
    /\ firstSeen = NoFirst

\* The same with USE_LOCALHOST at its default.
InitFrame ==
    /\ InitRegistry
    /\ serviceRoutes = BuildServiceRoutes(TRUE)

\* Request routing and forwarding.
Next == getApiInfo \/ proxyRequest \/ outboundSettles \/ requestDone

Spec == Init /\ [][Next]_vars

\* The health endpoint: one aggregation cycle after the other.
NextHealth ==
    \/ getHealth
    \/ \E s \in ServiceIds : healthProbeSettles(s)
    \/ \E s \in ServiceIds : rootProbeSettles(s)
    \/ \E n \in InfraNames : infraSettles(n)
    \/ healthDone

SpecHealth == Init /\ [][NextHealth]_vars

\* A few requests arriving again and again, next to the health endpoint.
NextRepeat ==
    \/ \E r \in FewRequests : proxyRequestOf(r)
    \/ outboundSettles
    \/ requestDone
    \/ NextHealth

SpecRepeat == InitRepeat /\ [][NextRepeat]_vars

\* The users of the registry: requests, health cycles, and callers of
\* getServiceRoutes.
NextRegistry ==
    \/ getApiInfoOf([url |-> RootPath, method |-> "GET", body |-> NoBody])
    \/ \E r \in FewRequests : proxyRequestOf(r)
    \/ outboundSettles
    \/ requestDone
    \/ NextHealth
    \/ getServiceRoutes
    \/ mutateCopy("course")

SpecRegistry == InitRegistry /\ [][NextRegistry]_vars

\* ProxyService by itself, called with arbitrary names.
NextProxyService ==
    \/ \E name \in ApiNames, path \in ApiPaths : callProxyRequest(name, path)
    \/ apiOutboundSettles
    \/ \E name \in ApiNames : callCheckServiceHealth(name)
    \/ apiProbeSettles
    \/ apiDone

SpecProxyService == Init /\ [][NextProxyService]_vars

\* Requests and health cycles side by side, and the clock.
NextFrame ==
    \/ getApiInfoOf([url |-> RootPath, method |-> "GET", body |-> NoBody])
    \/ \E r \in FewRequests : proxyRequestOf(r)
    \/ outboundSettles
    \/ requestDone
    \/ NextHealth
    \/ Tick

SpecFrame == InitFrame /\ [][NextFrame]_vars

\* A few requests, each with any of the header sets.
NextHeaders ==
    \/ getApiInfoOf([url |-> RootPath, method |-> "GET", body |-> NoBody])
    \/ \E r \in FewRequests : proxyRequestOf(r)
    \/ outboundSettles
    \/ requestDone

SpecHeaders == InitHeaders /\ [][NextHeaders]_vars

\* A few requests arriving again and again, next to the health endpoint,
\* while the clock advances. Every backend answers its GET /health with 200:
\* no check gets as far as the fallback probe.
NextStateless ==
    \/ \E r \in FewRequests : proxyRequestOf(r)
    \/ outboundSettles
    \/ requestDone
    \/ getHealth
    \/ \E s \in ServiceIds : healthProbeSettles(s)
    \/ \E n \in InfraNames : infraSettles(n)
    \/ healthDone
    \/ Tick

SpecStateless == InitStateless /\ [][NextStateless]_vars

\* The health endpoint, the settle order of the checks logged.
SpecMerge == InitMerge /\ [][NextHealth]_vars

\* The health endpoint, the steps of one infrastructure probe logged.
SpecProbes == InitProbes /\ [][NextHealth]_vars

\* The six service checks of one cycle, the probes of one service logged.
NextServices ==
    \/ getHealth
    \/ \E s \in ServiceIds : healthProbeSettles(s)
    \/ \E s \in ServiceIds : rootProbeSettles(s)

SpecServices == InitObserved /\ [][NextServices]_vars

\* The health endpoint with dependencies that may fall silent. Every call
\* that carries a timeout settles (with an answer or with its timeout), and
\* every continuation that is ready runs.
NextLive ==
    \/ getHealth
    \/ \E s \in ServiceIds : healthProbeSettles(s)
    \/ \E s \in ServiceIds : rootProbeSettles(s)
    \/ \E n \in InfraNames : infraSettles(n)
    \/ \E n \in InfraNames : infraHangs(n)
    \/ healthDone

FairnessLive ==
    /\ \A s \in ServiceIds : WF_vars(healthProbeSettles(s))
    /\ \A s \in ServiceIds : WF_vars(rootProbeSettles(s))
    /\ \A n \in InfraNames : WF_vars(infraSettles(n))
    /\ WF_vars(healthDone)

\* The state after construction with USE_LOCALHOST left at its default.
InitLive ==
    /\ Init
    /\ serviceRoutes = BuildServiceRoutes(TRUE)

SpecLive == InitLive /\ [][NextLive]_vars /\ FairnessLive

\* The uptime tracker: the service checks of a cycle, the checks of
\* overlapping cycles, and the clock.
NextTracker ==
    \/ getHealth
    \/ \E s \in ServiceIds : healthProbeSettles(s)
    \/ \E s \in ServiceIds : rootProbeSettles(s)
    \/ \E s \in ServiceIds : getHealthOverlapping(s)
    \/ overlappingProbeSettles
    \/ Tick

SpecTracker == InitTracker /\ [][NextTracker]_vars

(***************************************************************************)
(* Claims.                                                                 *)
(***************************************************************************)
\* normalize of a remainder: "/" for the empty one.
Normalize(P) == IF P = <<>> THEN <<"/">> ELSE P

\* Remainders that are empty or begin with "/".
SlashRemainders == {P \in Remainders : P = <<>> \/ P[1] = "/"}

V1 == <<"/", "v", "1", "/">>

\* The versioned scheme: "/v", one or more digits, "/", a service name, anything.
IsVersionedPath(path) ==
    \E n \in 1..Len(path) : \E S \in ServiceIds :
        /\ StartsWith(path, <<"/", "v">>)
        /\ Len(path) >= 3 + n
        /\ \A j \in 3..(2 + n) : path[j] \in Digits
        /\ path[3 + n] = "/"
        /\ StartsWith(Drop(path, 3 + n), ServiceChars(S))

\* The legacy scheme: "/", a service name, anything.
IsLegacyPath(path) ==
    \E S \in ServiceIds : StartsWith(path, <<"/">> \o ServiceChars(S))

\* req went through the catch-all handler.
Handled == gwPc \in {"awaiting", "responded", "returned"} /\ resp.body.type # "apiInfo"

\* C1: for every service S and every remainder P that is empty or begins
\* with "/", a request whose path is "/v1/S"+P or "/S"+P is dispatched to the
\* forwarder with service S and downstream path normalize(P).
C1_RouterResolves ==
    \A S \in ServiceIds : \A P \in SlashRemainders :
        (Handled /\ PathOf(req.url) \in {V1 \o ServiceChars(S) \o P,
                                          <<"/">> \o ServiceChars(S) \o P})
            => /\ fwd.service = S
               /\ PathOf(fwd.path) = Normalize(P)

\* C2: the downstream path handed to the forwarder always starts with "/".
C2_DownstreamPathStartsWithSlash ==
    (Handled /\ fwd # NoFwd) => (fwd.path # <<>> /\ fwd.path[1] = "/")

\* C3: a request whose path is not reserved and matches neither scheme is
\* answered 404 with exactly the six service names, and no outbound call is
\* issued for it.
C3_UnroutableIs404 ==
    (/\ Handled
     /\ PathOf(req.url) \notin {RootPath, InternalHealthPath}
     /\ ~IsVersionedPath(PathOf(req.url))
     /\ ~IsLegacyPath(PathOf(req.url)))
        => /\ gwPc = "responded"
           /\ resp.status = 404
           /\ Len(resp.body.availableServices) = 6
           /\ {resp.body.availableServices[i] : i \in 1..6} = ServiceIds
           /\ outbound = <<>>
           /\ fwd = NoFwd

C3_Witness ==
    /\ gwPc = "responded"
    /\ req.url = V1 \o <<"f", "o", "o">>
    /\ resp.status = 404

\* C4: a downstream answer with an error status is relayed to the caller
\* with that status and its body unchanged.
C4_ErrorStatusRelayedVerbatim ==
    (gwPc = "responded" /\ answer.kind = "response" /\ answer.status >= 400)
        => /\ resp.status = answer.status
           /\ resp.body = answer.data

\* C5: an outbound call that cannot complete is answered 502 with a message
\* naming the target service and the failure reason, never with a 2xx.
C5_NetworkFailureIs502 ==
    (gwPc = "responded" /\ answer.kind = "network")
        => /\ resp.status = 502
           /\ resp.body.statusCode = 502
           /\ \E i \in 1..Len(resp.body.message) : resp.body.message[i] = fwd.service
           /\ \E i \in 1..Len(resp.body.message) : resp.body.message[i] = answer.cause
           /\ ~(resp.status >= 200 /\ resp.status < 300)

C5_Witness ==
    /\ gwPc = "responded"
    /\ answer.kind = "network"
    /\ answer.cause = "connect ECONNREFUSED"
    /\ fwd.service = "media"

Is2xx(a) == a.kind = "response" /\ a.status >= 200 /\ a.status < 300

\* The checkService call of the observed service has returned.
ObservedDone == observed \in ServiceIds /\ svcPc[observed] = "done"

\* C7: checkServiceHealth(S) reports healthy if and only if the probe of
\* "/health" or the fallback probe of "/" returned a 2xx status, and
\* unhealthy is reported only after the "/" fallback was attempted.
C7_HealthyIffAny2xx ==
    ObservedDone
        => /\ (svcResult[observed].status = "healthy")
                <=> (Is2xx(probeLog.health) \/ Is2xx(probeLog.root))
           /\ svcResult[observed].status = "unhealthy" => probeLog.root # NoProbe

\* The statuses of the twelve entries of the document.
DocStatuses ==
    {doc.services[s].status : s \in DOMAIN doc.services}
        \cup {doc.infrastructure[n].status : n \in DOMAIN doc.infrastructure}

\* C8: the overall status of the health document is "unhealthy" if and only
\* if at least one of its twelve entries is "unhealthy", and "healthy"
\* otherwise.
C8_OverallStatus ==
    hPc = "done"
        => /\ DOMAIN doc.services = ServiceIds
           /\ DOMAIN doc.infrastructure = InfraNames
           /\ doc.status = IF "unhealthy" \in DocStatuses THEN "unhealthy" ELSE "healthy"
           /\ (\A x \in DocStatuses : x = "healthy") => doc.status = "healthy"

C8_Witness ==
    /\ hPc = "done"
    /\ doc.services["media"].status = "unhealthy"
    /\ \A s \in ServiceIds \ {"media"} : doc.services[s].status = "healthy"
    /\ \A n \in InfraNames : doc.infrastructure[n].status = "healthy"
    /\ doc.status = "unhealthy"

\* C9: getHealthStatus() never raises: whatever the twelve checks run into,
\* the call returns a document and GET /internal/health is answered 200.
C9_HealthNeverRaises ==
    /\ hPc # "rejected"
    /\ healthResp \in {0, 200}
    /\ hPc = "done" => (doc # NoDoc /\ healthResp = 200)
    /\ \A n \in InfraNames : infraPc[n] = "done" => infraResult[n] # NoInfra

C9_Witness ==
    /\ hPc = "done"
    /\ healthResp = 200
    /\ \A s \in ServiceIds : doc.services[s].status = "unhealthy"
    /\ \A n \in InfraNames : doc.infrastructure[n] = [status |-> "unhealthy", error |-> "error.message"]

\* C10: a service whose "/health" probe and "/" fallback both time out or
\* are refused gets a ServiceHealth entry with status "unhealthy" and a
\* non-empty error string.
C10_FailedProbeCarriesError ==
    (ObservedDone /\ probeLog.health.kind = "network" /\ probeLog.root.kind = "network")
        => /\ svcResult[observed].status = "unhealthy"
           /\ svcResult[observed].error \notin {"absent", ""}

\* A service check of the running cycle has not settled yet.
ServiceCheckPending == \E s \in ServiceIds : svcPc[s] \in {"health", "root"}

\* C11: within one getHealthStatus() cycle the six infrastructure probes are
\* started along with the six service checks: while a service check of the
\* cycle has not yet settled, the infrastructure probes are already under way
\* (in flight or settled), so a slow service check does not delay their start.
C11_InfraStartsWithServices ==
    (hPc = "services" /\ ServiceCheckPending)
        => \A n \in InfraNames : infraPc[n] \in {"probing", "done"}

\* C12: getHealthStatus() returns its document only after all twelve checks
\* of the cycle have settled, and the document has exactly the six service
\* keys and the six infrastructure keys, each mapped to the result of its own
\* check, whatever the outcomes.
C12_DocumentComplete ==
    /\ doc # NoDoc
        => /\ hPc = "done"
           /\ \A s \in ServiceIds : svcPc[s] = "done"
           /\ \A n \in InfraNames : infraPc[n] = "done"
    /\ hPc = "done"
        => /\ doc # NoDoc
           /\ DOMAIN doc.services = ServiceIds
           /\ DOMAIN doc.infrastructure = InfraNames
           /\ \A s \in ServiceIds :
                /\ doc.services[s] = svcResult[s]
                /\ doc.services[s].status \in {"healthy", "unhealthy"}
           /\ \A n \in InfraNames :
                /\ doc.infrastructure[n] = infraResult[n]
                /\ doc.infrastructure[n].status \in {"healthy", "unhealthy"}

C12_Witness ==
    /\ hPc = "done"
    /\ doc.services["course"].status = "unhealthy"
    /\ \A s \in ServiceIds \ {"course"} : doc.services[s].status = "healthy"
    /\ doc.infrastructure["rabbitmq"] = [status |-> "unhealthy", error |-> "HTTP status"]
    /\ doc.infrastructure["minio"] = [status |-> "unhealthy", error |-> "absent"]
    /\ \A n \in InfraNames \ {"rabbitmq", "minio"} : doc.infrastructure[n].status = "healthy"

\* C13: every outbound call has a timeout, so, assuming only that timeouts
\* fire, every getHealthStatus() call eventually returns, also when a
\* dependency that accepted the connection never replies.
C13_HealthCycleReturns ==
    (hPc \in {"services", "infrastructure"}) ~> (hPc \in {"done", "rejected"})

\* The methods for which the forwarder attaches the body.
BodyMethods == {"POST", "PUT", "PATCH"}

\* C14: the outbound call carries a body only when the method is POST, PUT
\* or PATCH, and then the inbound one; for GET, DELETE and any other method
\* it carries none, even when the inbound request supplied one.
C14_BodyOnlyForWriteMethods ==
    (gwPc \in {"awaiting", "responded"} /\ outbound # <<>>)
        => /\ outbound[1].data # NoBody
                => (req.method \in BodyMethods /\ outbound[1].data = req.body)
           /\ req.method \notin BodyMethods => outbound[1].data = NoBody

C14_Witness ==
    /\ gwPc = "awaiting"
    /\ req.method = "DELETE"
    /\ req.body # NoBody
    /\ outbound[1].data = NoBody

\* The outbound call of req was answered with a 2xx status and relayed.
SuccessfulExchange == gwPc = "responded" /\ AxiosResolves(answer)

\* The downstream headers that are to be relayed, by the exclusion list
\* compared without regard to case.
Excluded == {"content-encoding", "transfer-encoding", "connection"}
Kept == {k \in DOMAIN answer.headers : LowerName(k) \notin Excluded}

\* The headers res.json() sets for the body it serialises.
SetByJson == {"content-type", "content-length"}

C16_ReservedNeverRouted ==
    (gwPc # "idle" /\ PathOf(req.url) \in {RootPath, InternalHealthPath})
        => /\ fwd = NoFwd
           /\ outbound = <<>>
           /\ answer = NoAnswer
           /\ resp.body.type # "invalidPath"

C16_Witness ==
    /\ gwPc = "returned"
    /\ req.method = "POST"
    /\ req.url = InternalHealthPath \o <<"?", "a", "=", "1">>
    /\ outbound = <<>>

\* Version numbers: 1, an unknown one, and 0.
Versions == {<<"1">>, <<"4", "2">>, <<"0">>}

\* "/v{n}/S" followed by rest.
VersionedUrl(n, S, rest) == <<"/", "v">> \o n \o <<"/">> \o ServiceChars(S) \o rest

\* C17: the version number is a no-op for routing: "/v{n}/S"+P is forwarded
\* for every version n (none is rejected), to service S, and "/v{m}/S"+P
\* resolves to the same service and the same downstream path for every m.
C17_VersionIsNoOp ==
    (Handled /\ StartsWith(req.url, <<"/", "v">>))
        => \A n \in Versions : \A S \in ServiceIds :
            StartsWith(req.url, VersionedUrl(n, S, <<>>))
                => LET rest == Drop(req.url, Len(VersionedUrl(n, S, <<>>)))
                   IN  /\ gwPc \in {"awaiting", "responded"}
                       /\ fwd.service = S
                       /\ \A m \in Versions :
                            Resolve(VersionedUrl(m, S, rest))
                                = [kind |-> "forward", service |-> fwd.service,
                                   path |-> fwd.path]

C17_Witness ==
    /\ gwPc = "awaiting"
    /\ req.url = VersionedUrl(<<"0">>, "reviews", <<"/", "x">>)
    /\ fwd = [service |-> "reviews", path |-> <<"/", "x">>]

\* API_GATEWAY_ROUTES, the client path prefixes of the shared constants.
API_GATEWAY_ROUTES ==
    [AUTH     |-> <<"/", "a", "u", "t", "h">>,
     COURSES  |-> <<"/", "c", "o", "u", "r", "s", "e", "s">>,
     MEDIA    |-> <<"/", "m", "e", "d", "i", "a">>,
     PROGRESS |-> <<"/", "p", "r", "o", "g", "r", "e", "s", "s">>,
     REVIEWS  |-> <<"/", "r", "e", "v", "i", "e", "w", "s">>]

\* The README's routing table: the service each client path routes to.
RoutesTo ==
    [AUTH |-> "identity", COURSES |-> "course", MEDIA |-> "media",
     PROGRESS |-> "progress", REVIEWS |-> "reviews"]

\* C18: a request to /auth/*, /courses/*, /media/*, /progress/* or
\* /reviews/* is forwarded to the identity, course, media, progress or
\* reviews service, at its registered base URL followed by the rest of the
\* path.
C18_LegacyPrefixesRouted ==
    \A r \in DOMAIN API_GATEWAY_ROUTES :
        (Handled /\ StartsWith(PathOf(req.url), API_GATEWAY_ROUTES[r] \o <<"/">>))
            => /\ gwPc \in {"awaiting", "responded"}
               /\ fwd.service = RoutesTo[r]
               /\ Len(outbound) = 1
               /\ outbound[1].url.base = serviceRoutes[RoutesTo[r]]

\* In this step a checkService(s) call returns with the verdict healthy.
EndsHealthy(s) ==
    \/ /\ svcPc[s] \in {"health", "root"}
       /\ svcPc'[s] = "done"
       /\ svcResult'[s].status = "healthy"
    \/ /\ overlap.service = s
       /\ overlap.pc \in {"health", "root"}
       /\ overlap'.pc = "done"
       /\ overlap'.status = "healthy"

\* C19: a checkService(S) call that ends healthy sets lastHealthy of S to
\* the current time and nothing else; a call that ends unhealthy leaves the
\* whole tracker unchanged; no call changes the entry of another service.
C19_TrackerFrame ==
    [][\A s \in ServiceIds :
          IF EndsHealthy(s)
          THEN serviceUptimes'[s] = [serviceUptimes[s] EXCEPT !.lastHealthy = now]
          ELSE serviceUptimes'[s] = serviceUptimes[s]]_vars

C19_Witness ==
    /\ now = 1
    /\ svcPc["media"] = "done"
    /\ svcResult["media"].status = "unhealthy"
    /\ serviceUptimes["media"].lastHealthy = 0
    /\ overlap = [service |-> "course", pc |-> "done", status |-> "healthy"]
    /\ serviceUptimes["course"] = [startTime |-> 0, lastHealthy |-> 1]
    /\ serviceUptimes["identity"].lastHealthy = 0

\* C20: over every interleaving of the checks of concurrent and successive
\* cycles, the tracker has exactly one entry per service, no entry's
\* startTime ever changes, and no entry's lastHealthy ever decreases or is
\* earlier than its startTime.
C20_TrackerInvariant ==
    /\ [](/\ DOMAIN serviceUptimes = ServiceIds
          /\ \A s \in ServiceIds :
                serviceUptimes[s].lastHealthy >= serviceUptimes[s].startTime)
    /\ [][\A s \in ServiceIds :
            /\ serviceUptimes'[s].startTime = serviceUptimes[s].startTime
            /\ serviceUptimes'[s].lastHealthy >= serviceUptimes[s].lastHealthy]_vars

\* Two calls for media in flight at once, settled at different times.
C20_Witness ==
    /\ now = 1
    /\ svcPc["media"] = "root"
    /\ overlap = [service |-> "media", pc |-> "done", status |-> "healthy"]
    /\ serviceUptimes["media"] = [startTime |-> 0, lastHealthy |-> 1]

\* The probes that construct a client: checkPostgreSQL, checkMongoDB, checkRedis.
Closers == {"postgresql", "mongodb", "redis"}

\* C21: a probe that constructs a client has called the client's teardown by
\* the time it returns, on the success path and on every failure path (the
\* connect fails, an operation fails, the teardown itself throws); an
\* exception at any step makes the probe return status unhealthy with the
\* error message, and never escapes the probe.
C21_ProbeClosesItsClient ==
    (observed \in Closers /\ infraPc[observed] = "done")
        => /\ probeLog.handle \in {"none", "closed"}
           /\ hPc # "rejected"
           /\ infraResult[observed].status \in {"healthy", "unhealthy"}
           /\ probeLog.threw
                => infraResult[observed] = [status |-> "unhealthy", error |-> "error.message"]

\* The redis probe failed after its client was constructed, and the quit()
\* of the catch block threw too.
C21_Witness ==
    /\ observed = "redis"
    /\ infraPc["redis"] = "done"
    /\ probeLog.threw
    /\ probeLog.handle = "closed"
    /\ probeLog.teardownThrew
    /\ infraResult["redis"] = [status |-> "unhealthy", error |-> "error.message"]

\* How often the call c occurs in a sequence of calls.
Count(seq, c) == Cardinality({i \in 1..Len(seq) : seq[i] = c})

C23_NeverDegraded ==
    /\ doc.status \in {"none", "healthy", "unhealthy"}
    /\ doc.status # "degraded"
    /\ hPc = "done" => doc.status \in {"healthy", "unhealthy"}

\* One check of twelve is unhealthy.
C23_Witness ==
    /\ hPc = "done"
    /\ doc.infrastructure["minio"].status = "unhealthy"
    /\ \A n \in InfraNames \ {"minio"} : doc.infrastructure[n].status = "healthy"
    /\ \A s \in ServiceIds : doc.services[s].status = "healthy"
    /\ doc.status = "unhealthy"

\* The two tables the constructor can build, written out.
LocalRoutes ==
    [s \in ServiceIds |->
        [scheme |-> "http", host |-> "localhost",
         port |-> CASE s = "identity" -> 3001 [] s = "course" -> 3002 [] s = "media" -> 3003
                    [] s = "progress" -> 3004 [] s = "reviews" -> 3005
                    [] s = "indexer" -> 3006]]
NetworkRoutes ==
    [s \in ServiceIds |->
        CASE s = "identity" -> [scheme |-> "http", host |-> "identity-service", port |-> 3001]
          [] s = "course"   -> [scheme |-> "http", host |-> "course-service", port |-> 3002]
          [] s = "media"    -> [scheme |-> "http", host |-> "media-service", port |-> 3003]
          [] s = "progress" -> [scheme |-> "http", host |-> "progress-service", port |-> 3004]
          [] s = "reviews"  -> [scheme |-> "http", host |-> "reviews-service", port |-> 3005]
          [] s = "indexer"  -> [scheme |-> "http", host |-> "indexer-service", port |-> 3006]]

\* C24: the registry is total and immutable: after construction each of the
\* six services maps to exactly one base URL (in network mode its docker
\* hostname and standard port, course to http://course-service:3002), and no
\* operation changes the mapping: not a proxied request, not a health check,
\* not getServiceRoutes, not a write to the object getServiceRoutes returned.
C24_RegistryTotalImmutable ==
    /\ [](/\ DOMAIN serviceRoutes = ServiceIds
          /\ serviceRoutes \in {LocalRoutes, NetworkRoutes})
    /\ [][serviceRoutes' = serviceRoutes]_vars

\* In network mode, during a health cycle and with a request answered, the
\* object handed out was written to.
C24_Witness ==
    /\ routesCopy # NoCopy
    /\ serviceRoutes["course"] = [scheme |-> "http", host |-> "course-service", port |-> 3002]
    /\ routesCopy.table["course"] = Elsewhere
    /\ gwPc = "responded"
    /\ fwd.service = "course"
    /\ hPc = "infrastructure"

\* A call of ProxyService with a name outside the closed set is under way
\* or over.
UnknownNameCall(op) == api.op = op /\ api.service \notin ServiceIds

\* C25: proxyRequest called with a service name outside the six fails with
\* NotFound (404) and issues no outbound call; checkServiceHealth called with
\* such a name returns false without probing.
C25_UnknownNameNotFound ==
    /\ UnknownNameCall("proxyRequest")
            => /\ api.pc = "thrown"
               /\ api.status = 404
               /\ api.calls = <<>>
    /\ UnknownNameCall("checkServiceHealth")
            => /\ api.pc = "returned"
               /\ api.value = FALSE
               /\ api.calls = <<>>

\* The "/" probe of the observed call has been issued (it is in flight or
\* has settled).
RootIssued == svcPc[observed] = "root" \/ probeLog.root # NoProbe

\* C26: within checkServiceHealth(S) the "/" probe is issued only after the
\* "/health" probe of the same call has completed without success, never
\* before it and never while it is in flight; when "/health" answers with a
\* success status no "/" probe is issued in that call.
C26_FallbackAfterHealth ==
    observed \in ServiceIds
        => /\ RootIssued => (probeLog.health # NoProbe /\ ~Is2xx(probeLog.health))
           /\ svcPc[observed] = "health"
                => (~RootIssued /\ probeLog.health = NoProbe
                        /\ calls[observed] = <<"/health">>)
           /\ svcPc[observed] = "root" => calls[observed] = <<"/health", "/">>
           /\ Is2xx(probeLog.health) => (~RootIssued /\ svcPc[observed] = "done")

\* "/health" answered 404 and the fallback answered 200.
C26_Witness ==
    /\ observed = "reviews"
    /\ svcPc["reviews"] = "done"
    /\ probeLog.health = [kind |-> "response", status |-> 404, cause |-> "none"]
    /\ probeLog.root = [kind |-> "response", status |-> 200, cause |-> "none"]
    /\ svcResult["reviews"].status = "healthy"

\* The query parameters the downstream service receives with the outbound
\* call of req, without the empty ones.
Received ==
    LET list == QueryList(buildURL(outbound[1]))
    IN  SelectSeq(list, LAMBDA p : p # <<<<>>, <<>>>>)

\* C27: the outbound request carries the inbound query string exactly once:
\* each parameter of the inbound query reaches the downstream service once,
\* and a request without a query string produces an outbound call with no
\* query.
C27_QueryForwardedOnce ==
    (gwPc \in {"awaiting", "responded"} /\ outbound # <<>>)
        => /\ \A p \in QueryOf(req.url) : Count(Received, p) = 1
           /\ QueryOf(req.url) = {} => Received = <<>>

\* C28: every inbound request, for any method and any path (the non-GET
\* requests to "/" and "/internal/health" that reach the catch-all handler
\* included), receives one response: no handler path is left without a
\* response having been sent.
C28_EveryRequestAnswered ==
    (gwPc \in {"responded", "returned"}) => resp # NoResp

\* C29: the merge of a health cycle does not depend on the order in which the
\* twelve checks settle: the services map and the infrastructure map hold,
\* under each key, the result of that key's own check, and the overall status
\* is the fold of these results.
C29_MergeByKey ==
    /\ serviceMap # NoMap
          => /\ DOMAIN serviceMap = ServiceIds
             /\ \A s \in ServiceIds : serviceMap[s] = svcResult[s]
    /\ doc # NoDoc
          => /\ DOMAIN doc.services = ServiceIds
             /\ DOMAIN doc.infrastructure = InfraNames
             /\ \A s \in ServiceIds : doc.services[s] = svcResult[s]
             /\ \A n \in InfraNames : doc.infrastructure[n] = infraResult[n]
             /\ doc.status = "unhealthy"
                   <=> \/ \E s \in ServiceIds : svcResult[s].status = "unhealthy"
                       \/ \E n \in InfraNames : infraResult[n].status = "unhealthy"

\* A cycle whose last infrastructure probe to settle was the first of the
\* array and whose first was redis, with redis down and the others up.
C29_Witness ==
    /\ doc # NoDoc
    /\ Len(probeLog.order) = 6
    /\ probeLog.order[1] = "redis"
    /\ probeLog.order[6] = "postgresql"
    /\ doc.infrastructure["redis"].status = "unhealthy"
    /\ doc.infrastructure["postgresql"].status = "healthy"
    /\ doc.services["media"].status = "unhealthy"
    /\ doc.services["identity"].status = "healthy"

\* A step of the gateway's request handling: a request is taken (GET /, or
\* the catch-all handler up to its answer or its outbound call), or the
\* outbound call settles and the caller is answered.
GatewayStep == gwPc' # gwPc /\ gwPc' # "idle"

\* The probe of an infrastructure dependency returns.
InfraProbeStep == \E n \in InfraNames : infraPc[n] = "probing" /\ infraPc'[n] # "probing"

\* The checkService call for s returns.
CheckServiceReturns(s) == svcPc[s] \in {"health", "root"} /\ svcPc'[s] = "done"

\* C30: handling a proxied request (resolved, 404, relayed error or 502),
\* GET / and every infrastructure probe leave the uptime tracker and the
\* service registry unchanged; the tracker entry of a service changes only
\* in the step in which a checkService call for it returns, so one call
\* writes the tracker at most once.
C30_OnlyHealthCheckerWrites ==
    [][/\ (GatewayStep \/ InfraProbeStep)
            => /\ serviceUptimes' = serviceUptimes
               /\ serviceRoutes' = serviceRoutes
       /\ serviceRoutes' = serviceRoutes
       /\ \A s \in ServiceIds :
            serviceUptimes'[s] # serviceUptimes[s] => CheckServiceReturns(s)]_vars

\* A checkService call has written the tracker at time 1 and a request that
\* was forwarded to the same service afterwards got a 502.
C30_Witness ==
    /\ now = 1
    /\ serviceUptimes["course"] = [startTime |-> 0, lastHealthy |-> 1]
    /\ serviceUptimes["media"] = [startTime |-> 0, lastHealthy |-> 0]
    /\ gwPc = "responded"
    /\ fwd # NoFwd
    /\ fwd.service = "course"
    /\ resp.status = 502
    /\ hPc = "infrastructure"
    /\ \E n \in InfraNames : infraPc[n] = "done"

\* C31: the uptime of a ServiceHealth entry that checkService returns without
\* an exception is the current time minus the startTime of the tracker entry,
\* whatever lastHealthy is: a service that never answered healthy and one
\* that always did are reported with the same uptime.
C31_UptimeSinceStart ==
    [][\A s \in ServiceIds :
          (CheckServiceReturns(s) /\ svcResult'[s].error = "absent")
              => svcResult'[s].uptime = now - serviceUptimes[s].startTime]_vars

\* One cycle at time 1: media, never healthy, and course, healthy now, are
\* both reported with uptime 1.
C31_Witness ==
    /\ now = 1
    /\ svcResult["media"] = [status |-> "unhealthy", error |-> "absent", uptime |-> 1]
    /\ serviceUptimes["media"] = [startTime |-> 0, lastHealthy |-> 0]
    /\ svcResult["course"] = [status |-> "healthy", error |-> "absent", uptime |-> 1]
    /\ serviceUptimes["course"] = [startTime |-> 0, lastHealthy |-> 1]

\* The entries of the outbound headers that name the content type, in any
\* casing.
ContentTypeKeys == {k \in DOMAIN outbound[1].headers : LowerName(k) = "content-type"}

\* C32: the outbound request of a proxied call carries every inbound header
\* with its value unchanged, except the content type: the outbound headers
\* hold one content-type entry, application/json, whatever the inbound value
\* and the casing of the inbound name, and no second, differently-cased entry
\* with the inbound value.
C32_HeadersForwardedContentTypeJson ==
    (gwPc \in {"awaiting", "responded"} /\ outbound # <<>>)
        => /\ \A k \in DOMAIN rawHeaders :
                LowerName(k) # "content-type"
                    => \E x \in DOMAIN outbound[1].headers :
                          /\ LowerName(x) = LowerName(k)
                          /\ outbound[1].headers[x] = rawHeaders[k]
           /\ Cardinality(ContentTypeKeys) = 1
           /\ \A k \in ContentTypeKeys : outbound[1].headers[k] = "application/json"

\* The followed request has been answered again after the followed answer
\* came a second time.
AnsweredAgain ==
    /\ gwPc = "responded"
    /\ req = repeat.request
    /\ answer = firstSeen.answer
    /\ firstSeen.resp # NoResp

\* A response body without the time it was built at.
Untimed(body) ==
    IF body.type = "gatewayError" THEN [body EXCEPT !.timestamp = toISOString(0)] ELSE body

C34_UnhealthyCarriesError ==
    \A n \in InfraNames :
        infraResult[n].status = "unhealthy" => infraResult[n].error \notin {"absent", ""}

====
